---- MODULE Spec2Model ----
(***************************************************************************)
(* A model of dual_momentum.py: the retrying multi-strategy fetcher        *)
(* (fetch_single_symbol), the per-symbol price cache (load_cache,          *)
(* save_cache), the acquisition loop (fetch_with_cache) and the signal     *)
(* engine and notifications of main.                                       *)
(*                                                                         *)
(* A DataFrame of daily prices is a sequence of rows <<date, close>>; the  *)
(* close stands for the whole tuple of column values of the row. Dates are *)
(* day numbers 1..MaxDay and a calendar month is DaysPerMonth days long.   *)
(* A float that may be NaN is a sequence: <<>> is NaN, <<x>> is x.         *)
(*                                                                         *)
(* Five specifications share the variables:                                *)
(*   Spec        one run of main; a call of fetch_single_symbol is one     *)
(*               step of it, returning any frame SpecFetch can return;     *)
(*   SpecFetch   one call of fetch_single_symbol, strategy by strategy;    *)
(*   SpecSignal  main from the position loop on, over any row of scores;   *)
(*   SpecClip    main from line 212 on, over any calendar of trading days; *)
(*   SpecLive    a run or a call that keeps going while a step is          *)
(*               possible (weak fairness).                                 *)
(*                                                                         *)
(* A cache file holds the rows given to to_csv and read_csv gives them     *)
(* back; sort_index keeps the rows of one date in their order; the outer   *)
(* join of line 178 takes, per month, the last row of each frame. The      *)
(* delays (time.sleep) change no state but the one of the backoff, which   *)
(* SpecFetch keeps.                                                        *)
(***************************************************************************)
EXTENDS Integers, Sequences, FiniteSets, TLC

(* ------------------------------ bounds -------------------------------- *)

\* Days of the modelled calendar are 1..MaxDay; the run happens on MaxDay.
MaxDay == 4

\* Length of a calendar month in days.
DaysPerMonth == 2

\* Closing prices are 1..MaxPrice.
MaxPrice == 2

(* -------------------------- program constants ------------------------- *)

SYMBOLS == <<"VOO", "SCZ", "TLT">>

MAX_RETRIES == 5

\* seconds
BASE_SLEEP == 2

\* random.uniform(0, 0.75), in quarters of a second
JitterQuarters == 0..3

(* ------------------------------ frames -------------------------------- *)

Days == 1..MaxDay

Prices == 1..MaxPrice

Empty == <<>>

SymbolSet == {SYMBOLS[k] : k \in DOMAIN SYMBOLS}

Dates(df) == {df[k][1] : k \in DOMAIN df}

MaxOf(S) == CHOOSE x \in S : \A y \in S : y <= x

MinOf(S) == CHOOSE x \in S : \A y \in S : x <= y

\* df.index.max()
IndexMax(df) == MaxOf(Dates(df))

\* Insert row r after the rows of the sorted frame df whose date is <= r's.
InsertRow(df, r) ==
    LET before == SelectSeq(df, LAMBDA x : x[1] <= r[1])
        after == SelectSeq(df, LAMBDA x : x[1] > r[1])
    IN  before \o <<r>> \o after

RECURSIVE SortPrefix(_, _)
SortPrefix(df, n) ==
    IF n = 0 THEN <<>> ELSE InsertRow(SortPrefix(df, n - 1), df[n])

\* df.sort_index(): ascending by date, rows of one date keep their order.
SortIndex(df) == SortPrefix(df, Len(df))

\* df.drop_duplicates(): a row is dropped when an earlier row has the same
\* column values; the index (the date) is not part of the comparison.
DropDuplicates(df) ==
    LET keep(k) == \A j \in 1..(k - 1) : df[j][2] # df[k][2]
        idx == {k \in DOMAIN df : keep(k)}
        Pick[n \in 0..Len(df)] ==
            IF n = 0 THEN <<>>
            ELSE IF n \in idx THEN Append(Pick[n - 1], df[n]) ELSE Pick[n - 1]
    IN  Pick[Len(df)]

\* pd.concat([cached, df_new]).sort_index().drop_duplicates()
Merge(cached_df, df_new) == DropDuplicates(SortIndex(cached_df \o df_new))

\* Ascending (not necessarily strictly) date order.
Ascending(df) == \A j, k \in DOMAIN df : j < k => df[j][1] <= df[k][1]

NoDuplicateDates(df) == \A j, k \in DOMAIN df : j # k => df[j][1] # df[k][1]

(* --------------------------- the price cache -------------------------- *)

\* A cache file: absent, present but unreadable, or a readable table.
AbsentFile == [st |-> "absent", rows |-> Empty]

CorruptFile == [st |-> "corrupt", rows |-> Empty]

OkFile(df) == [st |-> "ok", rows |-> df]

\* load_cache
LoadCache(file) == IF file.st = "ok" THEN SortIndex(file.rows) ELSE Empty

\* A save that writes whatever it is given.
SaveCacheAlways(file, df) == OkFile(SortIndex(df))

\* save_cache: the file after save_cache(sym, df)
SaveCache(file, df) == IF df = Empty THEN file ELSE OkFile(SortIndex(df))

\* The frame of the days 1..hi that closes at p on every day before hi and
\* at q on day hi.
History(hi, p, q) == [d \in 1..hi |-> <<d, IF d < hi THEN p ELSE q>>]

\* What the upstream can answer on day t (its window, 450 days, is longer
\* than the modelled calendar): the days up to t, flat but for the last.
FetchFrames(t) == {History(t, p, q) : p \in Prices, q \in Prices}

\* What a run of MaxDay or of the two days before it can have left in the
\* cache: the answer of that day, over flat closes. The oldest one is stale
\* on MaxDay, the others are fresh.
CacheFrames ==
    {History(hi, p, p) : hi \in {d \in Days : d >= MaxDay - 2}, p \in Prices}

\* What read_csv leaves in the index for a Date cell that is no date: the
\* text of the cell (parse_dates gives the column back unparsed, as object).
NotADate == 0

\* A file read_csv parses whose Date cell is no date, such as the cut last
\* line of an interrupted to_csv.
GarbledFile == OkFile(<<<<NotADate, 1>>>>)

\* The index of df holds dates.
IndexIsDates(df) == \A k \in DOMAIN df : df[k][1] # NotADate

CacheFiles ==
    {AbsentFile, CorruptFile, GarbledFile} \cup {OkFile(df) : df \in CacheFrames}

\* A freshness test that asks for the cache to reach end_date itself.
IsFreshStrict(df, need_end) == IndexMax(df) >= need_end

\* A freshness test that tolerates two days.
IsFreshTwoDays(df, need_end) == IndexMax(df) >= need_end - 2

\* last >= need_end - pd.Timedelta(days=1)
IsFresh(df, need_end) == IndexMax(df) >= need_end - 1

\* df is not None and not df.empty and 'Close' in df.columns: every frame the
\* strategies build, and so every frame saved, carries a Close column.
Usable(df) == df # Empty

\* What one call of fetch_single_symbol on day t can return.
FetchResults(t) == {Empty} \cup FetchFrames(t)

(* ------------------------------- state -------------------------------- *)

VARIABLES
    today,          \* end_date of the run, a day number
    trading,        \* the days the market is open: the dates upstream has rows for
    cache,          \* the cache directory: symbol -> file
    cache0,         \* the cache directory as the run found it
    pc,             \* position of main / fetch_with_cache
    i,              \* index into SYMBOLS of the loop of fetch_with_cache
    frames,         \* fetch_with_cache.frames: <<[sym, df]>>
    failed,         \* fetch_with_cache.failed
    fetchCalls,     \* symbols fetch_single_symbol was called for in this run
    fetchRet,       \* per symbol, what that call returned
    used,           \* per symbol, where df came from in this run
    notifications,  \* the calls of send_telegram_message, in order
    available_syms, \* main.available_syms
    monthly,        \* main.monthly
    returns,        \* main.returns
    positions,      \* main.positions
    fsym,           \* fetch_single_symbol: the symbol argument
    fpc,            \* fetch_single_symbol: position
    attempt,        \* fetch_single_symbol: the loop variable
    host,           \* dl_via_chart_api: index of the host being tried
    exc,            \* the exception in flight in the try block
    sleep_s,        \* the backoff being slept, in quarters of a second
    fres,           \* fetch_single_symbol: the value returned
    nPeriodCalls,   \* how often dl_with_period was called in this call
    nSleeps,        \* how often time.sleep was called in this call
    gotData,        \* whether some strategy produced a non-empty frame
    tried           \* the requests issued in the current attempt, in order

vars ==
    <<today, trading, cache, cache0, pc, i, frames, failed, fetchCalls, fetchRet,
      used, notifications, available_syms, monthly, returns, positions, fsym, fpc,
      attempt, host, exc, sleep_s, fres, nPeriodCalls, nSleeps, gotData, tried>>

fetchVars ==
    <<fsym, fpc, attempt, host, exc, sleep_s, fres, nPeriodCalls, nSleeps,
      gotData, tried>>

signalVars == <<available_syms, monthly, returns, positions>>

acquireVars == <<cache, cache0, i, frames, failed, fetchCalls, fetchRet, used>>

(* ---------------------------- notifications --------------------------- *)

\* send_telegram_message(message): the call is recorded; whether it is
\* delivered or printed does not change the run.
FailedMessage(syms) == [kind |-> "failed", body |-> syms]

AbortMessage == [kind |-> "abort", body |-> <<>>]

ChangeMessage(prev, cur) == [kind |-> "change", body |-> <<prev, cur>>]

Sent(kind) == \E k \in DOMAIN notifications : notifications[k].kind = kind

CountSent(kind) ==
    Cardinality({k \in DOMAIN notifications : notifications[k].kind = kind})

(* -------------------------- fetch_with_cache -------------------------- *)

InSeq(x, seq) == \E k \in DOMAIN seq : seq[k] = x

Columns(fs) == {fs[k].sym : k \in DOMAIN fs}

\* A loop that puts the newest frame first.
CollectPrepend(sym, df) ==
    /\ IF Usable(df)
       THEN /\ frames' = <<[sym |-> sym, df |-> df]>> \o frames
            /\ failed' = failed
       ELSE /\ failed' = Append(failed, sym)
            /\ frames' = frames
    /\ i' = i + 1
    /\ pc' = IF i = Len(SYMBOLS) THEN "loop_done" ELSE "loop"

\* Lines 167-173: the frame joins the table or the symbol is marked failed,
\* and the loop moves on.
Collect(sym, df) ==
    /\ IF Usable(df)
       THEN /\ frames' = Append(frames, [sym |-> sym, df |-> df])
            /\ failed' = failed
       ELSE /\ failed' = Append(failed, sym)
            /\ frames' = frames
    /\ i' = i + 1
    /\ pc' = IF i = Len(SYMBOLS) THEN "loop_done" ELSE "loop"

\* Lines 148-154 and 167-173: the cache is fresh, no fetch.
UseFreshCache ==
    /\ pc = "loop"
    /\ LET sym == SYMBOLS[i]
           cached == LoadCache(cache[sym])
       IN  /\ cached # Empty
           /\ IndexIsDates(cached)
           /\ IsFresh(cached, today)
           /\ Collect(sym, cached)
           /\ used' = [used EXCEPT ![sym] = "cache"]
    /\ UNCHANGED <<today, trading, cache, cache0, fetchCalls, fetchRet, notifications>>
    /\ UNCHANGED <<signalVars, fetchVars>>

\* A refresh that drops the cached frame when the fetch comes back empty.
RefreshedFrameNoFallback(cached, df_new) ==
    IF df_new # Empty THEN DropDuplicates(SortIndex(cached \o df_new)) ELSE df_new

\* Lines 157-161: the frame used for a symbol whose cache is stale.
RefreshedFrame(cached, df_new) ==
    IF df_new # Empty THEN Merge(cached, df_new) ELSE cached

\* Lines 148-161 and 167-173: the cache is stale; fetch, merge and save, or
\* fall back to the cached frame.
RefreshStaleCache ==
    /\ pc = "loop"
    /\ LET sym == SYMBOLS[i]
           cached == LoadCache(cache[sym])
       IN  /\ cached # Empty
           /\ IndexIsDates(cached)
           /\ ~IsFresh(cached, today)
           /\ \E df_new \in FetchResults(today) :
                LET df == RefreshedFrame(cached, df_new)
                IN  /\ cache' = IF df_new # Empty
                                THEN [cache EXCEPT ![sym] = SaveCache(cache[sym], df)]
                                ELSE cache
                    /\ used' = [used EXCEPT ![sym] =
                                    IF df_new # Empty THEN "merged" ELSE "stale"]
                    /\ fetchRet' = [fetchRet EXCEPT ![sym] = df_new]
                    /\ Collect(sym, df)
           /\ fetchCalls' = fetchCalls \cup {sym}
    /\ UNCHANGED <<today, trading, cache0, notifications>>
    /\ UNCHANGED <<signalVars, fetchVars>>

\* Lines 151-153: the index of the cached frame holds text, last is a str,
\* and last >= need_end - pd.Timedelta(days=1) raises TypeError, which
\* nothing in fetch_with_cache or main catches: the script ends there.
FreshnessTestRaises ==
    /\ pc = "loop"
    /\ LET cached == LoadCache(cache[SYMBOLS[i]])
       IN  /\ cached # Empty
           /\ ~IndexIsDates(cached)
    /\ pc' = "crashed"
    /\ UNCHANGED <<today, trading, acquireVars, notifications>>
    /\ UNCHANGED <<signalVars, fetchVars>>

\* Lines 148-151 and 162-173: no readable cache; fetch and save.
FetchMissingCache ==
    /\ pc = "loop"
    /\ LET sym == SYMBOLS[i]
           cached == LoadCache(cache[sym])
       IN  /\ cached = Empty
           /\ \E df \in FetchResults(today) :
                /\ cache' = IF df # Empty
                            THEN [cache EXCEPT ![sym] = SaveCache(cache[sym], df)]
                            ELSE cache
                /\ used' = [used EXCEPT ![sym] = IF df # Empty THEN "fetched" ELSE "none"]
                /\ fetchRet' = [fetchRet EXCEPT ![sym] = df]
                /\ Collect(sym, df)
           /\ fetchCalls' = fetchCalls \cup {sym}
    /\ UNCHANGED <<today, trading, cache0, notifications>>
    /\ UNCHANGED <<signalVars, fetchVars>>

\* A report that is sent only when every symbol failed.
NotifyFailedOnlyAll(failed_syms) == Len(failed_syms) = Len(SYMBOLS)

\* Line 175: if failed
NotifyFailed(failed_syms) == failed_syms # <<>>

\* Lines 175-178: report the failed symbols and return the table.
FinishAcquire ==
    /\ pc = "loop_done"
    /\ notifications' =
          IF NotifyFailed(failed)
          THEN Append(notifications, FailedMessage(failed))
          ELSE notifications
    /\ pc' = "main_check"
    /\ UNCHANGED <<today, trading, acquireVars>>
    /\ UNCHANGED <<signalVars, fetchVars>>

(* --------------------------- the signal engine ------------------------ *)

NaN == <<>>

IsNaN(x) == x = <<>>

MonthOf(d) == ((d - 1) \div DaysPerMonth) + 1

\* The last calendar day of month m.
MonthEnd(m) == m * DaysPerMonth

\* The dates of the outer join of the frames (pd.concat(frames, axis=1)).
DataDates(fs) == UNION {Dates(fs[k].df) : k \in DOMAIN fs}

FrameOf(fs, sym) == (CHOOSE k \in DOMAIN fs : fs[k].sym = sym)

\* resample('ME').last() of one column: the close of the last row of the
\* month, NaN when the symbol has no row in it.
MonthLast(df, m) ==
    LET rows == SelectSeq(df, LAMBDA r : MonthOf(r[1]) = m)
    IN  IF rows = <<>> THEN NaN ELSE <<rows[Len(rows)][2]>>

\* data.resample('ME').last(): one row per month from the first to the last
\* month of the table, over the columns syms.
Resample(fs, syms) ==
    IF DataDates(fs) = {}
    THEN <<>>
    ELSE LET first == MonthOf(MinOf(DataDates(fs)))
             last == MonthOf(MaxOf(DataDates(fs)))
         IN  [k \in 1..(last - first + 1) |->
                [month |-> first + k - 1,
                 close |-> [s \in syms |->
                              MonthLast(fs[FrameOf(fs, s)].df, first + k - 1)]]]

\* A cutoff that always takes the month end of the latest daily date.
CutoffCurrentMonth(last_daily) == MonthEnd(MonthOf(last_daily))

\* Lines 190-199: the month end the monthly rows are cut at.
Cutoff(last_daily) ==
    LET current_month_end == MonthEnd(MonthOf(last_daily))
        prev_month_end == MonthEnd(MonthOf(last_daily) - 1)
    IN  IF last_daily < current_month_end THEN prev_month_end ELSE current_month_end

\* clip_to_completed_months(daily_df, monthly_df)
ClipToCompletedMonths(fs, monthly_df) ==
    IF DataDates(fs) = {} \/ monthly_df = <<>>
    THEN monthly_df
    ELSE SelectSeq(monthly_df,
                   LAMBDA r : MonthEnd(r.month) <= Cutoff(MaxOf(DataDates(fs))))

RECURSIVE Factorial(_)
Factorial(n) == IF n <= 1 THEN 1 ELSE n * Factorial(n - 1)

\* Returns are kept as integers: a return x is stored as Scale * x, which is
\* whole because every close divides Scale.
Scale == Factorial(MaxPrice)

\* The column of symbol s of the monthly table, as a sequence.
Column(monthly_df, s) == [t \in 1..Len(monthly_df) |-> monthly_df[t].close[s]]

\* ffill: the last value at or before row t, NaN when there is none.
Filled(col, t) ==
    LET defined == {u \in 1..t : ~IsNaN(col[u])}
    IN  IF defined = {} THEN NaN ELSE col[MaxOf(defined)]

\* Series.pct_change(n), row t. pad: whether this pandas forward-fills the
\* column first (fill_method='pad', the default up to pandas 2.x).
PctChange(col, t, n, pad) ==
    IF t - n < 1
    THEN NaN
    ELSE LET a == IF pad THEN Filled(col, t) ELSE col[t]
             b == IF pad THEN Filled(col, t - n) ELSE col[t - n]
         IN  IF IsNaN(a) \/ IsNaN(b)
             THEN NaN
             ELSE <<((Scale * a[1]) \div b[1]) - Scale>>

RECURSIVE SumSeq(_)
SumSeq(xs) == IF xs = <<>> THEN 0 ELSE Head(xs) + SumSeq(Tail(xs))

\* DataFrame.mean(axis=1) of one row: the mean of the values that are not
\* NaN, NaN when all are. The result is stored times 6.
MeanSkipNa(xs) ==
    LET vals == SelectSeq(xs, LAMBDA x : ~IsNaN(x))
    IN  IF vals = <<>>
        THEN NaN
        ELSE <<(6 \div Len(vals)) * SumSeq([k \in 1..Len(vals) |-> vals[k][1]])>>

\* Lines 234-241: the momentum of a risk asset in row t.
Momentum(monthly_df, s, syms, t, pad) ==
    IF s \in syms
    THEN LET col == Column(monthly_df, s)
         IN  MeanSkipNa(<<PctChange(col, t, 1, pad), PctChange(col, t, 3, pad),
                          PctChange(col, t, 6, pad)>>)
    ELSE NaN

\* Lines 227-241, one row of returns as the loop of line 244 reads it:
\* row.get(name, np.nan) is NaN for a column that does not exist.
ReturnsRow(monthly_df, syms, t, pad) ==
    [VOO_momentum |-> Momentum(monthly_df, "VOO", syms, t, pad),
     SCZ_momentum |-> Momentum(monthly_df, "SCZ", syms, t, pad),
     TLT_1m |-> IF "TLT" \in syms
                THEN PctChange(Column(monthly_df, "TLT"), t, 1, pad)
                ELSE NaN]

\* Lines 255-259: the candidates, VOO before SCZ.
Candidates(voo_mom, scz_mom) ==
    (IF ~IsNaN(voo_mom) THEN <<[k |-> "VOO", v |-> voo_mom[1]]>> ELSE <<>>)
    \o (IF ~IsNaN(scz_mom) THEN <<[k |-> "SCZ", v |-> scz_mom[1]]>> ELSE <<>>)

\* A comparison that lets a later candidate win on equality.
BeatsOrTies(v, best) == best.asset = "None" \/ v >= best.mom

\* Line 263: v > best_mom, where best_mom starts at -inf.
Beats(v, best) == best.asset = "None" \/ v > best.mom

\* Lines 261-264: the loop over the candidates.
RECURSIVE BestOf(_, _)
BestOf(cands, best) ==
    IF cands = <<>>
    THEN best
    ELSE BestOf(Tail(cands),
                IF Beats(Head(cands).v, best)
                THEN [asset |-> Head(cands).k, mom |-> Head(cands).v]
                ELSE best)

\* Lines 269-273: the safe asset or cash. tlt_in: 'TLT' in available_syms
\* and 'TLT_1m' in returns.columns.
SafeAsset(tlt_ret, tlt_in) ==
    IF tlt_in /\ ~IsNaN(tlt_ret) /\ tlt_ret[1] > 0 THEN "TLT" ELSE "CASH"

\* Lines 245-273: the position of one row. Closes are positive, so every
\* return that is not NaN is finite.
PositionOf(row, tlt_in) ==
    LET best == BestOf(Candidates(row.VOO_momentum, row.SCZ_momentum),
                       [asset |-> "None", mom |-> 0])
    IN  IF best.asset # "None" /\ best.mom > 0
        THEN best.asset
        ELSE SafeAsset(row.TLT_1m, tlt_in)

\* A trigger that fires on any two last positions.
LastTwoAny(pos) == Len(pos) >= 2

\* Lines 278-280: the last two positions exist and differ.
LastTwoDiffer(pos) == Len(pos) >= 2 /\ pos[Len(pos) - 1] # pos[Len(pos)]

(* -------------------------------- main -------------------------------- *)

\* A test that never finds the table empty.
DataEmptyNever(fs) == FALSE

\* Line 212, data.empty: line 178 returns the empty DataFrame exactly when no
\* frame was collected, and every collected frame has rows.
DataEmpty(fs) == fs = <<>>

\* Lines 212-215: the table is empty; notify and return.
MainAbort ==
    /\ pc = "main_check"
    /\ DataEmpty(frames)
    /\ notifications' = Append(notifications, AbortMessage)
    /\ pc' = "done"
    /\ UNCHANGED <<today, trading, acquireVars>>
    /\ UNCHANGED <<signalVars, fetchVars>>

\* Lines 217-225: the available symbols and the monthly table.
MainResample ==
    /\ pc = "main_check"
    /\ ~DataEmpty(frames)
    /\ available_syms' = SelectSeq(SYMBOLS, LAMBDA c : c \in Columns(frames))
    /\ monthly' = ClipToCompletedMonths(frames, Resample(frames, Columns(frames)))
    /\ pc' = IF monthly' = <<>> THEN "done" ELSE "returns"
    /\ UNCHANGED <<today, trading, acquireVars, notifications, returns, positions>>
    /\ UNCHANGED fetchVars

\* Lines 227-241: the returns and the momentum scores.
MainReturns ==
    /\ pc = "returns"
    /\ \E pad \in BOOLEAN :
          returns' = [t \in 1..Len(monthly) |->
                        ReturnsRow(monthly, Columns(frames), t, pad)]
    /\ pc' = "positions"
    /\ UNCHANGED <<today, trading, acquireVars, notifications, available_syms, monthly,
                   positions>>
    /\ UNCHANGED fetchVars

\* Lines 243-275: one position per row.
MainPositions ==
    /\ pc = "positions"
    /\ positions' = [t \in 1..Len(returns) |->
                        PositionOf(returns[t], InSeq("TLT", available_syms))]
    /\ pc' = "notify"
    /\ UNCHANGED <<today, trading, acquireVars, notifications, available_syms, monthly,
                   returns>>
    /\ UNCHANGED fetchVars

\* Lines 277-287: notify when the last two positions differ.
MainNotify ==
    /\ pc = "notify"
    /\ notifications' =
          IF LastTwoDiffer(positions)
          THEN Append(notifications,
                      ChangeMessage(positions[Len(positions) - 1],
                                    positions[Len(positions)]))
          ELSE notifications
    /\ pc' = "done"
    /\ UNCHANGED <<today, trading, acquireVars>>
    /\ UNCHANGED <<signalVars, fetchVars>>

(* ------------------------- the run of the script ---------------------- *)

FetchIdle ==
    /\ fsym = "VOO"
    /\ fpc = "idle"
    /\ attempt = 0
    /\ host = 0
    /\ exc = "none"
    /\ sleep_s = 0
    /\ fres = Empty
    /\ nPeriodCalls = 0
    /\ nSleeps = 0
    /\ gotData = FALSE
    /\ tried = <<>>

SignalIdle ==
    /\ available_syms = <<>>
    /\ monthly = <<>>
    /\ returns = <<>>
    /\ positions = <<>>

\* The script starts on day MaxDay with any cache directory.
Init ==
    /\ today = MaxDay
    /\ trading = Days
    /\ cache \in [SymbolSet -> CacheFiles]
    /\ cache0 = cache
    /\ pc = "loop"
    /\ i = 1
    /\ frames = <<>>
    /\ failed = <<>>
    /\ fetchCalls = {}
    /\ fetchRet = [s \in SymbolSet |-> Empty]
    /\ used = [s \in SymbolSet |-> "pending"]
    /\ notifications = <<>>
    /\ SignalIdle
    /\ FetchIdle

Next ==
    \/ UseFreshCache
    \/ RefreshStaleCache
    \/ FreshnessTestRaises
    \/ FetchMissingCache
    \/ FinishAcquire
    \/ MainAbort
    \/ MainResample
    \/ MainReturns
    \/ MainPositions
    \/ MainNotify

Spec == Init /\ [][Next]_vars

(* ------------------------- fetch_single_symbol ------------------------ *)

\* dl_via_chart_api.hosts
Hosts == <<"query1", "query2">>

RECURSIVE Pow2(_)
Pow2(n) == IF n <= 0 THEN 1 ELSE 2 * Pow2(n - 1)

\* base_sleep * (2 ** (attempt - 1)), in quarters of a second
Backoff(att) == 4 * BASE_SLEEP * Pow2(att - 1)

\* A handler that catches only the error the function raises itself.
CatchesRuntimeErrorOnly(e) == e = "RuntimeError"

\* Line 116, except Exception: every exception a strategy raises is caught.
Catches(e) == e \in {"RuntimeError", "DownloadError"}

\* Line 98: range(1, max_retries + 1) is exhausted after this attempt.
LastAttempt(att) == att >= MAX_RETRIES

\* A strategy whose frame is kept while the retry loop goes on.
ReturnFrameKeepsGoing(df) ==
    /\ fres' = df
    /\ gotData' = TRUE
    /\ fpc' = "sleep"

\* A strategy produced a non-empty frame: fetch_single_symbol returns it.
ReturnFrame(df) ==
    /\ fres' = df
    /\ gotData' = TRUE
    /\ fpc' = "ret"

\* An exception leaves the try block of line 99.
Raise(e) ==
    /\ exc' = e
    /\ fpc' = "except"

\* Lines 100-103: the trailing-window download.
DlWithPeriod ==
    /\ fpc = "period"
    /\ nPeriodCalls' = nPeriodCalls + 1
    /\ tried' = Append(tried, "period")
    /\ \/ \E df \in FetchFrames(today) :
            /\ ReturnFrame(df)
            /\ UNCHANGED exc
       \/ /\ fpc' = "start_end"
          /\ UNCHANGED <<fres, gotData, exc>>
       \/ /\ Raise("DownloadError")
          /\ UNCHANGED <<fres, gotData>>
    /\ UNCHANGED <<today, trading, pc, acquireVars, notifications, signalVars>>
    /\ UNCHANGED <<fsym, attempt, host, sleep_s, nSleeps>>

\* An explicit-range download after which an empty answer ends the attempt.
DlWithStartEndNoChart ==
    /\ fpc = "start_end"
    /\ tried' = Append(tried, "start_end")
    /\ \/ \E df \in FetchFrames(today) :
            /\ ReturnFrame(df)
            /\ UNCHANGED <<exc, host>>
       \/ /\ Raise("RuntimeError")
          /\ UNCHANGED <<fres, gotData, host>>
       \/ /\ Raise("DownloadError")
          /\ UNCHANGED <<fres, gotData, host>>
    /\ UNCHANGED <<today, trading, pc, acquireVars, notifications, signalVars>>
    /\ UNCHANGED <<fsym, attempt, sleep_s, nPeriodCalls, nSleeps>>

\* Lines 105-108: the explicit-range download.
DlWithStartEnd ==
    /\ fpc = "start_end"
    /\ tried' = Append(tried, "start_end")
    /\ \/ \E df \in FetchFrames(today) :
            /\ ReturnFrame(df)
            /\ UNCHANGED <<exc, host>>
       \/ /\ fpc' = "chart"
          /\ host' = 1
          /\ UNCHANGED <<fres, gotData, exc>>
       \/ /\ Raise("DownloadError")
          /\ UNCHANGED <<fres, gotData, host>>
    /\ UNCHANGED <<today, trading, pc, acquireVars, notifications, signalVars>>
    /\ UNCHANGED <<fsym, attempt, sleep_s, nPeriodCalls, nSleeps>>

\* Lines 110-115 with one iteration of the loop of lines 66-96: the host
\* answers with data; with rows that are all empty, which dropna removes, so
\* that the empty frame is returned and line 115 raises; or with nothing
\* usable (status, missing fields, an exception), and the next host is
\* tried, line 115 raising after the last one.
DlViaChartApi ==
    /\ fpc = "chart"
    /\ tried' = Append(tried, Hosts[host])
    /\ \/ \E df \in FetchFrames(today) :
            /\ ReturnFrame(df)
            /\ UNCHANGED <<exc, host>>
       \/ /\ Raise("RuntimeError")
          /\ UNCHANGED <<fres, gotData, host>>
       \/ /\ host < Len(Hosts)
          /\ host' = host + 1
          /\ UNCHANGED <<fres, gotData, exc, fpc>>
       \/ /\ host = Len(Hosts)
          /\ Raise("RuntimeError")
          /\ UNCHANGED <<fres, gotData, host>>
    /\ UNCHANGED <<today, trading, pc, acquireVars, notifications, signalVars>>
    /\ UNCHANGED <<fsym, attempt, sleep_s, nPeriodCalls, nSleeps>>

\* Lines 116-118: the handler computes the backoff; an exception it does not
\* catch leaves fetch_single_symbol.
HandleFailure ==
    /\ fpc = "except"
    /\ IF Catches(exc)
       THEN /\ \E j \in JitterQuarters : sleep_s' = Backoff(attempt) + j
            /\ fpc' = "sleep"
       ELSE /\ fpc' = "raised"
            /\ UNCHANGED sleep_s
    /\ exc' = "none"
    /\ UNCHANGED <<today, trading, pc, acquireVars, notifications, signalVars>>
    /\ UNCHANGED <<fsym, attempt, host, fres, nPeriodCalls, nSleeps, gotData,
                   tried>>

\* Line 119, then line 98 or line 121: the sleep ends; the next attempt
\* starts, or the loop is exhausted and the empty frame is returned.
Sleep ==
    /\ fpc = "sleep"
    /\ nSleeps' = nSleeps + 1
    /\ sleep_s' = 0
    /\ IF LastAttempt(attempt)
       THEN /\ fres' = Empty
            /\ fpc' = "ret"
            /\ UNCHANGED <<attempt, tried>>
       ELSE /\ attempt' = attempt + 1
            /\ tried' = <<>>
            /\ fpc' = "period"
            /\ UNCHANGED fres
    /\ UNCHANGED <<today, trading, pc, acquireVars, notifications, signalVars>>
    /\ UNCHANGED <<fsym, host, exc, nPeriodCalls, gotData>>

\* One call fetch_single_symbol(symbol, start_date, end_date, session).
InitFetch ==
    /\ today = MaxDay
    /\ trading = Days
    /\ cache = [s \in SymbolSet |-> AbsentFile]
    /\ cache0 = cache
    /\ pc = "fetch_single_symbol"
    /\ i = 1
    /\ frames = <<>>
    /\ failed = <<>>
    /\ fetchCalls = {}
    /\ fetchRet = [s \in SymbolSet |-> Empty]
    /\ used = [s \in SymbolSet |-> "pending"]
    /\ notifications = <<>>
    /\ SignalIdle
    /\ fsym \in SymbolSet
    /\ fpc = "period"
    /\ attempt = 1
    /\ host = 0
    /\ exc = "none"
    /\ sleep_s = 0
    /\ fres = Empty
    /\ nPeriodCalls = 0
    /\ nSleeps = 0
    /\ gotData = FALSE
    /\ tried = <<>>

NextFetch ==
    \/ DlWithPeriod
    \/ DlWithStartEnd
    \/ DlViaChartApi
    \/ HandleFailure
    \/ Sleep

SpecFetch == InitFetch /\ [][NextFetch]_vars

(* ------------------- the position loop on its own --------------------- *)

\* Scores are -MaxScore..MaxScore, in hundredths, or NaN.
MaxScore == 5

Scores == {NaN} \cup {<<x>> : x \in (0 - MaxScore)..MaxScore}

ScoreRows == [VOO_momentum : Scores, SCZ_momentum : Scores, TLT_1m : Scores]

\* main from line 243 on, over any one row of returns; a table without the
\* TLT column has no TLT_1m.
InitSignal ==
    /\ today = MaxDay
    /\ trading = Days
    /\ cache = [s \in SymbolSet |-> AbsentFile]
    /\ cache0 = cache
    /\ pc = "positions"
    /\ i = Len(SYMBOLS) + 1
    /\ frames = <<>>
    /\ failed = <<>>
    /\ fetchCalls = {}
    /\ fetchRet = [s \in SymbolSet |-> Empty]
    /\ used = [s \in SymbolSet |-> "pending"]
    /\ notifications = <<>>
    /\ available_syms \in {SYMBOLS, SelectSeq(SYMBOLS, LAMBDA c : c # "TLT")}
    /\ monthly = <<>>
    /\ \E r \in ScoreRows :
          /\ InSeq("TLT", available_syms) \/ IsNaN(r.TLT_1m)
          /\ returns = <<r>>
    /\ positions = <<>>
    /\ FetchIdle

NextSignal ==
    \/ MainPositions
    \/ MainNotify

SpecSignal == InitSignal /\ [][NextSignal]_vars

(* ------------------------- runs that keep going ----------------------- *)

\* The cache files by their kind: absent, unreadable, garbled, stale and
\* fresh.
LiveCacheFiles ==
    {AbsentFile, CorruptFile, GarbledFile, OkFile(History(MaxDay - 2, 1, 1)),
     OkFile(History(MaxDay, 1, 1))}

\* A run of main over cache files of every kind, or one call of
\* fetch_single_symbol on its own.
InitLive ==
    \/ Init /\ \A s \in SymbolSet : cache[s] \in LiveCacheFiles
    \/ InitFetch

NextLive == Next \/ NextFetch

\* The script is one synchronous thread: while a step is possible, the
\* interpreter takes it. Each network call carries a timeout (timeout=12,
\* timeout=15, and the timeouts of yf.download) and each sleep is finite, so
\* every step ends.
SpecLive == InitLive /\ [][NextLive]_vars /\ WF_vars(NextLive)

(* --------------- the monthly table over a trading calendar ------------ *)

\* The k-th smallest day of the set S.
NthDay(S, k) == CHOOSE d \in S : Cardinality({e \in S : e <= d}) = k

\* The rows upstream has on the trading days T up to day hi, closing at p.
TradingHistory(T, hi, p) ==
    LET ds == {d \in T : d <= hi}
    IN  [k \in 1..Cardinality(ds) |-> <<NthDay(ds, k), p>>]

\* What fetch_single_symbol can have returned per symbol over the calendar
\* T: nothing, or the rows up to some day (upstream may lag behind today).
ClipInputs(T) ==
    [SymbolSet -> {Empty} \cup {TradingHistory(T, hi, p) : hi \in Days, p \in Prices}]

\* main at line 212, after fetch_with_cache found no cache file and fetched
\* every symbol, over any calendar of trading days; some symbol has rows.
InitClip ==
    /\ today = MaxDay
    /\ trading \in (SUBSET Days) \ {{}}
    /\ \E f \in ClipInputs(trading) :
          /\ \E s \in SymbolSet : f[s] # Empty
          /\ fetchRet = f
          /\ cache = [s \in SymbolSet |-> SaveCache(AbsentFile, f[s])]
          /\ frames = [k \in 1..Len(SelectSeq(SYMBOLS, LAMBDA c : Usable(f[c]))) |->
                          [sym |-> SelectSeq(SYMBOLS, LAMBDA c : Usable(f[c]))[k],
                           df |-> f[SelectSeq(SYMBOLS, LAMBDA c : Usable(f[c]))[k]]]]
          /\ failed = SelectSeq(SYMBOLS, LAMBDA c : ~Usable(f[c]))
          /\ used = [s \in SymbolSet |-> IF Usable(f[s]) THEN "fetched" ELSE "none"]
    /\ cache0 = [s \in SymbolSet |-> AbsentFile]
    /\ pc = "main_check"
    /\ i = Len(SYMBOLS) + 1
    /\ fetchCalls = SymbolSet
    /\ notifications =
          IF NotifyFailed(failed) THEN <<FailedMessage(failed)>> ELSE <<>>
    /\ SignalIdle
    /\ FetchIdle

NextClip ==
    \/ MainResample
    \/ MainReturns
    \/ MainPositions
    \/ MainNotify

SpecClip == InitClip /\ [][NextClip]_vars

(* ------------------------------ properties ---------------------------- *)

\* fetch_with_cache has returned.
Acquired == pc \in {"main_check", "returns", "positions", "notify", "done"}

\* The frame collected for sym, a column of the table.
FrameUsed(sym) == frames[FrameOf(frames, sym)].df

\* sym is named in a failed-symbols notification.
NamedFailed(sym) ==
    \E k \in DOMAIN notifications :
        notifications[k].kind = "failed" /\ InSeq(sym, notifications[k].body)

\* The cache the run loaded for sym was not empty and older than end_date - 1.
LoadedStale(sym) ==
    /\ LoadCache(cache0[sym]) # Empty
    /\ IndexMax(LoadCache(cache0[sym])) < today - 1

\* The cache the run loaded for sym was not empty and reached end_date - 1.
LoadedFresh(sym) ==
    /\ LoadCache(cache0[sym]) # Empty
    /\ IndexMax(LoadCache(cache0[sym])) >= today - 1

\* C1: for every symbol the loop has handled whose loaded cache is not
\* empty and reaches end_date minus one day, fetch_single_symbol was not
\* called in this run and the cached frame is the symbol's column.
C1_FreshCacheNoFetch ==
    \A k \in DOMAIN SYMBOLS :
        (k < i /\ LoadedFresh(SYMBOLS[k]))
        => /\ SYMBOLS[k] \notin fetchCalls
           /\ SYMBOLS[k] \in Columns(frames)
           /\ FrameUsed(SYMBOLS[k]) = LoadCache(cache0[SYMBOLS[k]])

\* A finished run in which one symbol had a fresh cache and was served from
\* it while another symbol was fetched.
C1_Witness ==
    /\ pc = "done"
    /\ fetchCalls # {}
    /\ \E sym \in SymbolSet :
          /\ LoadedFresh(sym)
          /\ sym \notin fetchCalls
          /\ sym \in Columns(frames)

\* C2: whenever a non-empty cached frame was merged with a non-empty fetched
\* frame, the merged frame that is saved and used has no two rows of one
\* date and is in ascending date order.
C2_MergedUniqueAscending ==
    \A k \in DOMAIN SYMBOLS :
        LET sym == SYMBOLS[k]
        IN  (/\ k < i
             /\ LoadCache(cache0[sym]) # Empty
             /\ sym \in fetchCalls
             /\ fetchRet[sym] # Empty)
            => /\ NoDuplicateDates(cache[sym].rows)
               /\ Ascending(cache[sym].rows)
               /\ NoDuplicateDates(FrameUsed(sym))
               /\ Ascending(FrameUsed(sym))

\* C3: every date the cache file of a symbol held when the run started is
\* still in the file, whatever the run did: the cached dates only grow.
C3_CachedDatesOnlyGrow ==
    \A sym \in SymbolSet : Dates(cache0[sym].rows) \subseteq Dates(cache[sym].rows)

\* C4: fetch_single_symbol never lets an exception out, and when no strategy
\* of any attempt produced data it returns the empty frame after exactly
\* MAX_RETRIES attempts.
C4_FetchNeverRaises ==
    /\ fpc # "raised"
    /\ (fpc = "ret" /\ ~gotData)
       => (fres = Empty /\ nPeriodCalls = MAX_RETRIES)
    /\ (fpc # "ret" /\ fpc # "idle") => nPeriodCalls <= MAX_RETRIES

\* The call has returned the empty frame after MAX_RETRIES failed attempts.
C4_Witness ==
    /\ fpc = "ret"
    /\ ~gotData
    /\ fres = Empty
    /\ nPeriodCalls = MAX_RETRIES

\* C5: when the loaded cache of a symbol is not empty but stale and the fetch
\* returned the empty frame, the symbol is not marked failed, the stale
\* cached frame is its column, and it is among the available symbols.
C5_StaleFallback ==
    \A k \in DOMAIN SYMBOLS :
        LET sym == SYMBOLS[k]
        IN  (k < i /\ LoadedStale(sym) /\ fetchRet[sym] = Empty)
            => /\ ~InSeq(sym, failed)
               /\ ~NamedFailed(sym)
               /\ sym \in Columns(frames)
               /\ FrameUsed(sym) = LoadCache(cache0[sym])
               /\ (pc \in {"returns", "positions", "notify"}
                   => InSeq(sym, available_syms))

\* The positions were computed over a table one column of which is a stale
\* cached frame, its refresh having failed.
C5_Witness ==
    /\ pc = "notify"
    /\ \E sym \in SymbolSet :
          /\ LoadedStale(sym)
          /\ sym \in fetchCalls
          /\ fetchRet[sym] = Empty
          /\ InSeq(sym, available_syms)

\* C6 as stated: no column of the table is a cached frame, taken as it is,
\* whose latest date is more than one day before end_date.
C6_NeverServesStale ==
    \A sym \in Columns(frames) :
        used[sym] \in {"cache", "stale"} => IndexMax(FrameUsed(sym)) >= today - 1

\* C6 as amended: a column is a cached frame, taken as it is, whose latest
\* date is more than one day before end_date only when fetch_single_symbol
\* was called for the symbol in this run and returned the empty frame.
C6_StaleOnlyAfterFailedFetch ==
    \A sym \in Columns(frames) :
        (used[sym] \in {"cache", "stale"} /\ IndexMax(FrameUsed(sym)) < today - 1)
        => (sym \in fetchCalls /\ fetchRet[sym] = Empty)

\* A finished run that served one symbol from a stale cache after a failed
\* fetch and another from a fresh cache without a fetch.
C6_Witness ==
    /\ pc = "done"
    /\ \E sym \in Columns(frames) :
          /\ used[sym] = "stale"
          /\ IndexMax(FrameUsed(sym)) < today - 1
          /\ fetchRet[sym] = Empty
    /\ \E sym \in Columns(frames) : used[sym] = "cache" /\ sym \notin fetchCalls

\* The symbols that are not in failed, in the order of SYMBOLS.
Remaining == SelectSeq(SYMBOLS, LAMBDA c : ~InSeq(c, failed))

C8_TotalFailureAborts ==
    (Acquired /\ Len(failed) = Len(SYMBOLS))
    => /\ pc \in {"main_check", "done"}
       /\ SignalIdle
       /\ ~Sent("change")
       /\ pc = "done" => CountSent("abort") = 1

\* The run ended by the abort notification.
C8_Witness ==
    /\ pc = "done"
    /\ Len(failed) = Len(SYMBOLS)
    /\ CountSent("abort") = 1
    /\ SignalIdle

\* C9 as stated: in a run that computed two positions or more, a
\* notification is sent exactly when the last two positions differ, and
\* none at all when they are the same.
C9_NotificationIffChange ==
    (pc = "done" /\ Len(positions) >= 2)
    => ((notifications # <<>>)
        <=> (positions[Len(positions) - 1] # positions[Len(positions)]))

\* C9 as amended: the position-change notification is sent, once, exactly
\* when two positions or more were computed and the last two differ; the
\* only other notification of such a run is the failed-symbols one.
C9_ChangeNotificationIffChange ==
    pc = "done"
    => /\ (CountSent("change") = 1)
          <=> (/\ Len(positions) >= 2
               /\ positions[Len(positions) - 1] # positions[Len(positions)])
       /\ CountSent("change") <= 1
       /\ \A k \in DOMAIN notifications :
             notifications[k].kind = "change"
             => notifications[k].body =
                   <<positions[Len(positions) - 1], positions[Len(positions)]>>
       /\ Len(positions) >= 2 => ~Sent("abort")

\* A finished run whose last two positions differ, with the change
\* notification sent next to a failed-symbols notification.
C9_Witness ==
    /\ pc = "done"
    /\ Len(positions) >= 2
    /\ positions[Len(positions) - 1] # positions[Len(positions)]
    /\ CountSent("change") = 1
    /\ Sent("failed")

\* The decision C10 describes, for one row of scores.
ReferencePosition(row, tlt_in) ==
    LET voo == row.VOO_momentum
        scz == row.SCZ_momentum
        tlt == row.TLT_1m
    IN  IF /\ ~IsNaN(voo)
           /\ voo[1] > 0
           /\ (IsNaN(scz) \/ voo[1] >= scz[1])
        THEN "VOO"
        ELSE IF /\ ~IsNaN(scz)
                /\ scz[1] > 0
                /\ (IsNaN(voo) \/ scz[1] > voo[1])
             THEN "SCZ"
             ELSE IF tlt_in /\ ~IsNaN(tlt) /\ tlt[1] > 0 THEN "TLT" ELSE "CASH"

\* C10: the position of every row is the risk asset with the greatest score
\* that is not NaN when that score is above zero, VOO on a tie, and
\* otherwise TLT when its 1-month return is not NaN and above zero, else
\* CASH. Scores are in hundredths: {VOO 5, SCZ 3} gives VOO, {VOO -2,
\* SCZ -1} gives TLT with TLT at 1 and CASH with TLT at -1.
C10_PositionIsReference ==
    pc \in {"notify", "done"}
    => /\ Len(positions) = Len(returns)
       /\ \A t \in DOMAIN positions :
             /\ positions[t] = ReferencePosition(returns[t], InSeq("TLT", available_syms))
             /\ (returns[t].VOO_momentum = <<5>> /\ returns[t].SCZ_momentum = <<3>>)
                => positions[t] = "VOO"
             /\ (/\ returns[t].VOO_momentum = <<0 - 2>>
                 /\ returns[t].SCZ_momentum = <<0 - 1>>
                 /\ returns[t].TLT_1m = <<1>>)
                => positions[t] = "TLT"
             /\ (/\ returns[t].VOO_momentum = <<0 - 2>>
                 /\ returns[t].SCZ_momentum = <<0 - 1>>
                 /\ returns[t].TLT_1m = <<0 - 1>>)
                => positions[t] = "CASH"

\* A row in which VOO and SCZ tie above zero has the position VOO.
C10_Witness ==
    /\ pc = "notify"
    /\ returns[1].VOO_momentum = returns[1].SCZ_momentum
    /\ returns[1].VOO_momentum = <<3>>
    /\ positions[1] = "VOO"

\* main has passed line 221: the monthly table is computed.
Clipped == pc \in {"returns", "positions", "notify"} \/ (pc = "done" /\ frames # <<>>)

\* The latest date of the daily table.
LastDaily == MaxOf(DataDates(frames))

\* The months of the rows of resample('ME').last(), before the clip.
RawMonths == MonthOf(MinOf(DataDates(frames)))..MonthOf(LastDaily)

HasRow(m) == \E k \in DOMAIN monthly : monthly[k].month = m

\* C11: the monthly table has the row of a month of the daily table exactly
\* when the latest daily date is on or after the last calendar day of that
\* month, and the rows kept are the rows of resample, in order: a latest
\* date before the end of its own month drops that month's row and keeps
\* every earlier one, a latest date on the last calendar day keeps all.
C11_ClipKeepsCompletedMonths ==
    Clipped =>
        /\ \A m \in RawMonths : HasRow(m) <=> LastDaily >= MonthEnd(m)
        /\ \A k \in DOMAIN monthly :
              monthly[k] = Resample(frames, Columns(frames))[k]
        /\ Len(monthly) =
              IF LastDaily < MonthEnd(MonthOf(LastDaily))
              THEN Cardinality(RawMonths) - 1
              ELSE Cardinality(RawMonths)

\* The latest daily date is inside its month: that month's row is dropped
\* and the row of the month before is kept.
C11_Witness ==
    /\ pc = "returns"
    /\ LastDaily < MonthEnd(MonthOf(LastDaily))
    /\ ~HasRow(MonthOf(LastDaily))
    /\ HasRow(MonthOf(LastDaily) - 1)

\* The symbols of the columns of the table, in column order.
ColumnOrder == [k \in DOMAIN frames |-> frames[k].sym]

\* C12: the loop handles the symbols one after the other in the order of
\* SYMBOLS: while symbol k is not yet reached, nothing of it has been read,
\* fetched, written or collected; once it is passed, its cache file holds
\* its one write or is as the run found it. The columns of the table, and
\* the available symbols main goes on with, are SYMBOLS restricted to the
\* symbols with usable data, in the order of SYMBOLS.
C12_SequentialInOrder ==
    /\ \A k \in DOMAIN SYMBOLS :
          LET sym == SYMBOLS[k]
          IN  IF k >= i
              THEN /\ used[sym] = "pending"
                   /\ sym \notin fetchCalls
                   /\ cache[sym] = cache0[sym]
                   /\ sym \notin Columns(frames)
                   /\ ~InSeq(sym, failed)
              ELSE /\ used[sym] # "pending"
                   /\ InSeq(sym, failed) # (sym \in Columns(frames))
                   /\ cache[sym] =
                         IF sym \in fetchCalls /\ fetchRet[sym] # Empty
                         THEN SaveCache(cache0[sym], FrameUsed(sym))
                         ELSE cache0[sym]
    /\ ColumnOrder = SelectSeq(SYMBOLS, LAMBDA c : c \in Columns(frames))
    /\ failed = SelectSeq(SYMBOLS, LAMBDA c : InSeq(c, failed))
    /\ pc \in {"returns", "positions", "notify"} => available_syms = ColumnOrder

\* A finished run whose table has the first and the last symbol as columns,
\* in that order, the one between them having failed.
C12_Witness ==
    /\ pc = "done"
    /\ ColumnOrder = <<SYMBOLS[1], SYMBOLS[3]>>
    /\ failed = <<SYMBOLS[2]>>
    /\ available_syms = ColumnOrder

\* The requests of one attempt, in the order the code issues them: two
\* downloads through the library, then one request per chart host.
AttemptRequests == <<"period", "start_end">> \o Hosts

IsPrefix(p, q) == Len(p) <= Len(q) /\ \A k \in DOMAIN p : p[k] = q[k]

\* C13: every call of fetch_single_symbol returns, after at most MAX_RETRIES
\* attempts, each attempt issuing at most two library downloads and one
\* request per chart host; and every run of main over SYMBOLS ends by
\* returning from main, having completed or having aborted at line 215.
C13_NoIndefiniteBlocking ==
    /\ [](/\ attempt <= MAX_RETRIES
          /\ nPeriodCalls <= MAX_RETRIES
          /\ nPeriodCalls <= attempt
          /\ IsPrefix(tried, AttemptRequests))
    /\ (pc = "fetch_single_symbol") ~> (fpc = "ret")
    /\ (pc = "loop") ~> (pc = "done")

\* The file is absent, or unreadable, or its Date cells are no dates.
Damaged(file) == file.st # "ok" \/ ~IndexIsDates(file.rows)

\* The loop has loaded the cache of SYMBOLS[k].
Loaded(k) == k < i \/ (k = i /\ pc = "crashed")

\* C14: for every symbol whose cache file is absent, unreadable or
\* malformed, load_cache gives the empty frame, fetch_single_symbol is
\* called for the symbol as on a cache miss, and the run does not end
\* because of the file.
C14_DamagedCacheIsMiss ==
    /\ pc # "crashed"
    /\ \A k \in DOMAIN SYMBOLS :
          (Loaded(k) /\ Damaged(cache0[SYMBOLS[k]]))
          => /\ LoadCache(cache0[SYMBOLS[k]]) = Empty
             /\ SYMBOLS[k] \in fetchCalls
             /\ used[SYMBOLS[k]] \in {"fetched", "none"}

\* C15: save_cache of the empty frame leaves the file as it is, and a
\* symbol for which fetch_single_symbol returned the empty frame has, after
\* its turn, the cache file the run found.
C15_EmptyNeverOverwrites ==
    /\ \A sym \in SymbolSet : SaveCache(cache[sym], Empty) = cache[sym]
    /\ \A k \in DOMAIN SYMBOLS :
          (k < i /\ SYMBOLS[k] \in fetchCalls /\ fetchRet[SYMBOLS[k]] = Empty)
          => cache[SYMBOLS[k]] = cache0[SYMBOLS[k]]

\* A finished run in which the fetch came back empty for a symbol with a
\* stale cache file and for a symbol with an unreadable one, both files
\* being as the run found them.
C15_Witness ==
    /\ pc = "done"
    /\ \E s \in SymbolSet :
          /\ LoadedStale(s) /\ s \in fetchCalls /\ fetchRet[s] = Empty
          /\ cache[s] = cache0[s] /\ cache[s].rows # Empty
    /\ \E s \in SymbolSet :
          /\ cache0[s] = CorruptFile /\ s \in fetchCalls /\ fetchRet[s] = Empty
          /\ cache[s] = CorruptFile

\* The three strategies were tried in the current attempt.
AllStrategiesTried == IsPrefix(<<"period", "start_end", Hosts[1]>>, tried)

\* C16 as stated: an attempt has failed, and is followed by backoff, only
\* when all three strategies were tried in it: after a strategy that gave
\* nothing, by an empty answer or by an exception, the others still ran.
C16_FailureOnlyAfterAllStrategies ==
    fpc \in {"except", "sleep"} => AllStrategiesTried

\* C16 as amended: an attempt has failed either when all three strategies
\* were tried and none gave data (the RuntimeError of line 115), or at once
\* when the trailing-window or the explicit-range download raised, the
\* strategies after it being skipped; after an empty answer of one of these
\* two, the next strategy is tried in the same attempt.
C16_FailureAfterAllOrThrow ==
    /\ fpc = "except"
       => \/ exc = "RuntimeError" /\ AllStrategiesTried
          \/ /\ exc = "DownloadError"
             /\ tried \in {<<"period">>, <<"period", "start_end">>}
    /\ fpc = "start_end" => tried = <<"period">>
    /\ fpc = "chart" => IsPrefix(<<"period", "start_end">>, tried)
    /\ fpc = "sleep" => tried # <<>>

\* The second attempt failed at once: the trailing-window download raised
\* and no other strategy was tried.
C16_Witness ==
    /\ fpc = "except"
    /\ attempt = 2
    /\ exc = "DownloadError"
    /\ tried = <<"period">>

\* C17: the requests of an attempt are issued in the order trailing window,
\* explicit range, first chart host, second chart host; once a strategy has
\* given a frame that is not empty, that frame is returned at once: no
\* other request, no other attempt and no backoff follows it.
C17_FirstDataReturnsAtOnce ==
    /\ IsPrefix(tried, AttemptRequests)
    /\ nPeriodCalls \in {attempt - 1, attempt}
    /\ gotData
       => /\ fpc = "ret"
          /\ fres # Empty
          /\ nPeriodCalls = attempt
          /\ nSleeps = attempt - 1
          /\ sleep_s = 0
          /\ ~ENABLED NextFetch

\* The second chart host gave data in the third attempt, after every other
\* request of that attempt: the frame is returned after two backoffs.
C17_Witness ==
    /\ fpc = "ret"
    /\ gotData
    /\ attempt = 3
    /\ tried = AttemptRequests
    /\ nSleeps = 2

\* C18: a backoff is slept only before a next attempt: no sleep follows the
\* failure of attempt MAX_RETRIES, so a call that returns the empty frame
\* has slept MAX_RETRIES - 1 times; and the sleep after the failure of
\* attempt k lasts from base_sleep * 2^(k-1) to that plus 0.75 seconds.
C18_BackoffOnlyBeforeNextAttempt ==
    /\ fpc = "sleep"
       => /\ attempt < MAX_RETRIES
          /\ sleep_s >= Backoff(attempt)
          /\ sleep_s <= Backoff(attempt) + 3
    /\ (fpc = "ret" /\ ~gotData) => nSleeps = MAX_RETRIES - 1

\* The mean of all of xs, NaN when one of them is NaN; stored times 6 as
\* the momentum is.
MeanOfAll(xs) ==
    IF \E k \in DOMAIN xs : IsNaN(xs[k])
    THEN NaN
    ELSE <<(6 \div Len(xs)) * SumSeq([k \in DOMAIN xs |-> xs[k][1]])>>

\* The 1-, 3- and 6-month returns of s in row t of the monthly table.
ThreeReturns(s, t, pad) ==
    LET col == Column(monthly, s)
    IN  <<PctChange(col, t, 1, pad), PctChange(col, t, 3, pad),
          PctChange(col, t, 6, pad)>>

MomentumOf(row, s) == IF s = "VOO" THEN row.VOO_momentum ELSE row.SCZ_momentum

\* C19: in every row and for each risk asset of the table, the momentum is
\* the mean of all three returns (1, 3 and 6 months); in a row where one of
\* the three is NaN the asset has no momentum and is not the position.
C19_MomentumIsMeanOfAllThree ==
    (pc \in {"notify", "done"} /\ returns # <<>>)
    => \E pad \in BOOLEAN :
          \A t \in DOMAIN returns :
             \A s \in {"VOO", "SCZ"} \cap Columns(frames) :
                /\ MomentumOf(returns[t], s) = MeanOfAll(ThreeReturns(s, t, pad))
                /\ (\E k \in 1..3 : IsNaN(ThreeReturns(s, t, pad)[k]))
                   => /\ IsNaN(MomentumOf(returns[t], s))
                      /\ positions[t] # s

\* The trading days of month m.
TradingDaysOf(m) == {d \in trading : MonthOf(d) = m}

\* C20: every month of the daily table whose last trading day is on or
\* before the latest daily date has its row in the monthly table, also when
\* that last trading day is before the last calendar day of the month.
\* (Months that end after MaxDay are left out: their trading days are not
\* all known.)
C20_TradingMonthCompleted ==
    Clipped =>
        \A m \in RawMonths :
            (/\ MonthEnd(m) <= MaxDay
             /\ TradingDaysOf(m) # {}
             /\ MaxOf(TradingDaysOf(m)) <= LastDaily)
            => HasRow(m)

====
